---- MODULE Spec2Model ----
(***************************************************************************)
(* Model of src/webhook.js: the parsing sessions of WildberriesParser      *)
(* (parseCategory), the shared PQueue through which page scrapes run       *)
(* (scrapeWbPageWithQueue / scrapeWbPage), the Evirma enrichment client    *)
(* and the part of BotHandlers.handleText that runs after parseCategory    *)
(* returns.                                                                *)
(*                                                                         *)
(* JavaScript runs one continuation at a time: the code between two        *)
(* awaits is atomic.  Every action below is one such continuation: it is   *)
(* enabled when the awaited operation settles and runs up to the next      *)
(* await that waits for something outside the process (network, timer,     *)
(* file system).  A run of awaits between which the code changes no        *)
(* modelled state is one waiting position.                                 *)
(***************************************************************************)
EXTENDS Integers, Sequences, FiniteSets, TLC

\* ------------------------------------------------------------------ bounds
\* The parseCategory calls of the model; each is made at most once.
Calls == {"c1", "c2", "c3", "c4"}
\* The page cap of the model; stands for this.MAX_PAGES = 50.
MAX_PAGES == 2
\* The most keywords an enrichment response of the model holds.
MaxKeywords == 2
\* The most query parameters a URL of the model carries.
MaxParams == 3

\* ------------------------------------------------------ program constants
\* new PQueue({ concurrency: 2, interval: 2000 })
Concurrency == 2
\* the interval option the queue is given, in ticks of 2000 ms
Interval == 1
\* const MAX_RETRIES = 6 in scrapeWbPage
ScrapeMaxRetries == 6
\* const MAX_RETRIES = 3 in queryEvirmaApi
EvirmaMaxRetries == 3

\* ------------------------------------------------------------------ state
VARIABLES
    sess,                 \* per call: the position and locals of parseCategory
    activeParsingUsers,   \* WildberriesParser.activeParsingUsers (a Set)
    results,              \* WildberriesParser.results (one array per parser)
    catalogData,          \* WildberriesParser.catalogData: "null" or "tree"
    logMessages,          \* LogService.logMessages: the users with an entry
    queue,                \* the PQueue: running count and waiting tasks
    elapsed,              \* ticks since the queue last started a task (capped at Interval)
    evirma,               \* one evaluation of queryEvirmaApi and parseEvirmaResponse
    finder                \* one evaluation of findCategoryByUrl

vars == <<sess, activeParsingUsers, results, catalogData, logMessages, queue, elapsed,
          evirma, finder>>

\* The variables of the sessions, and those of the single evaluations.
sessionVars == <<sess, activeParsingUsers, results, catalogData, logMessages, queue, elapsed>>
pureVars == <<evirma, finder>>

\* A report row, identified by the session and page whose enrichment made it.
Row(c, p) == <<c, p>>

InitSession ==
    [ pc        |-> "idle",
      user      |-> "none",
      found     |-> FALSE,     \* does the URL match a catalog node
      page      |-> 0,
      attempt   |-> 0,         \* scrapeWbPage's attempt
      eattempt  |-> 0,         \* queryEvirmaApi's attempt
      gets      |-> 0,         \* ghost: GET requests of the running scrapeWbPage
      posts     |-> 0,         \* ghost: POST requests of the running queryEvirmaApi
      enr       |-> "none",    \* ghost: ResponseClass of the last enrichment response
      products  |-> FALSE,     \* did the last page carry named products
      ret       |-> "none",    \* what parseCategory returned
      exitPath  |-> "none",    \* ghost: the path on which it returned
      loopExit  |-> "none",    \* ghost: why the page loop ended
      reported  |-> FALSE,     \* ghost: the reporting step was reached
      handed    |-> <<>>,      \* the rows the reporting step read
      own       |-> <<>>,      \* ghost: rows of this session's pages, in order
      exports   |-> 0,         \* ghost: saveToExcel calls
      finalMsg  |-> "none" ]   \* handleText's closing message

InitSessions ==
    /\ sess = [c \in Calls |-> InitSession]
    /\ activeParsingUsers = {}
    /\ results = <<>>
    /\ catalogData = "null"
    /\ logMessages = {}
    /\ queue = [pending |-> 0, waiting |-> <<>>]
    /\ elapsed = Interval

\* No evaluation of the pure functions is under way.
EvirmaIdle == [phase |-> "idle", resp |-> <<>>, data |-> <<>>, rows |-> <<>>]
FinderIdle == [phase |-> "idle", catalog |-> <<>>, path |-> <<>>, params |-> <<>>,
               out |-> <<>>]

Init ==
    /\ InitSessions
    /\ evirma = EvirmaIdle
    /\ finder = FinderIdle

\* ------------------------------------------------------------ the PQueue
\* p-queue takes the spacing from two options: interval and intervalCap.  The
\* constructor is given interval only; intervalCap keeps its default, Infinity.
IntervalCapIsInfinite == TRUE

\* p-queue: isIntervalIgnored = intervalCap === Infinity || interval === 0
IsIntervalIgnored == IntervalCapIsInfinite \/ Interval = 0

\* p-queue: doesIntervalAllowAnother
DoesIntervalAllowAnother == IsIntervalIgnored \/ elapsed >= Interval

DoesConcurrentAllowAnotherMut(q) == TRUE

\* p-queue: doesConcurrentAllowAnother = pending < concurrency
DoesConcurrentAllowAnother(q) == q.pending < Concurrency

\* A task starts: scrapeWbPage begins with attempt = 0 and issues its GET.
RunTask(s, c) == [s EXCEPT ![c].pc = "get", ![c].attempt = 0, ![c].gets = 1]

\* queue.add(() => this.scrapeWbPage(...)): the task is enqueued and the queue
\* tries to start another; it starts at once when a slot is free.
QueueAdd(s, q, c) ==
    IF Len(q.waiting) = 0 /\ DoesIntervalAllowAnother /\ DoesConcurrentAllowAnother(q)
    THEN [sess    |-> RunTask(s, c),
          queue   |-> [q EXCEPT !.pending = @ + 1],
          started |-> TRUE]
    ELSE [sess    |-> [s EXCEPT ![c].pc = "queued"],
          queue   |-> [q EXCEPT !.waiting = Append(@, c)],
          started |-> FALSE]

QueueNextMut(s, q) ==
    LET q1 == [q EXCEPT !.pending = @ - 1] IN
    IF Len(q1.waiting) > 0 /\ DoesIntervalAllowAnother /\ DoesConcurrentAllowAnother(q1)
    THEN [sess    |-> RunTask(s, q1.waiting[Len(q1.waiting)]),
          queue   |-> [pending |-> q1.pending + 1,
                       waiting |-> SubSeq(q1.waiting, 1, Len(q1.waiting) - 1)],
          started |-> TRUE]
    ELSE [sess |-> s, queue |-> q1, started |-> FALSE]

\* A task settles (resolves or rejects): pending-- and the queue tries to start
\* the task at the head of the waiting list.
QueueNext(s, q) ==
    LET q1 == [q EXCEPT !.pending = @ - 1] IN
    IF Len(q1.waiting) > 0 /\ DoesIntervalAllowAnother /\ DoesConcurrentAllowAnother(q1)
    THEN [sess    |-> RunTask(s, Head(q1.waiting)),
          queue   |-> [pending |-> q1.pending + 1, waiting |-> Tail(q1.waiting)],
          started |-> TRUE]
    ELSE [sess |-> s, queue |-> q1, started |-> FALSE]

\* ------------------------------------------------------- parseCategory
IsActiveMut(u) == FALSE

\* this.activeParsingUsers.has(userId)
IsActive(u) == u \in activeParsingUsers

ClearActiveMut(u) == activeParsingUsers

\* finally { this.activeParsingUsers.delete(userId) }
ClearActive(u) == activeParsingUsers \ {u}

\* A return statement inside try/catch: the value is fixed, the finally block
\* deletes the user and awaits its closing log line.
Exit(s, c, r, path) ==
    [s EXCEPT ![c].pc = "returning", ![c].ret = r, ![c].exitPath = path,
              ![c].page = 0, ![c].handed = <<>>, ![c].own = <<>>,
              ![c].enr = "none"]

\* The reporting step (after the page loop): it reads this.results, res here.
Reporting(s, c, res, why) ==
    IF Len(res) = 0
    THEN [s EXCEPT ![c].pc = "notifyEmpty", ![c].loopExit = why, ![c].page = 0,
                   ![c].reported = TRUE, ![c].handed = res]
    ELSE [s EXCEPT ![c].pc = "export", ![c].loopExit = why, ![c].page = 0,
                   ![c].reported = TRUE, ![c].handed = res,
                   ![c].exports = @ + 1]

RejectDuplicateMut(c, u) ==
    /\ sess' = [sess EXCEPT ![c].user = u, ![c].pc = "returning",
                            ![c].ret = "false", ![c].exitPath = "duplicate"]
    /\ activeParsingUsers' = activeParsingUsers \ {u}
    /\ UNCHANGED results

\* The duplicate call: logs and returns false before the try block.
RejectDuplicate(c, u) ==
    /\ sess' = [sess EXCEPT ![c].user = u, ![c].pc = "returning",
                            ![c].ret = "false", ![c].exitPath = "duplicate"]
    /\ UNCHANGED <<activeParsingUsers, results>>

\* The admitted call: marks the user, resets this.results, and enters
\* findCategoryByUrl, which fetches the catalog when none is cached.
Admit(c, u, f) ==
    /\ activeParsingUsers' = activeParsingUsers \cup {u}
    /\ results' = <<>>
    /\ sess' = [sess EXCEPT ![c].user = u, ![c].found = f,
                            ![c].pc = IF catalogData = "null" THEN "fetchCatalog"
                                                              ELSE "resolve"]

Start(c, u, f) ==
    /\ sess[c].pc = "idle"
    /\ IF IsActive(u) THEN ~f /\ RejectDuplicate(c, u) ELSE Admit(c, u, f)
    /\ UNCHANGED <<catalogData, logMessages, queue, elapsed>>
    /\ UNCHANGED pureVars

\* fetchWbCatalog resolved: the tree is cached.
FetchOk(c) ==
    /\ sess[c].pc = "fetchCatalog"
    /\ catalogData' = "tree"
    /\ sess' = [sess EXCEPT ![c].pc = "resolve"]
    /\ UNCHANGED <<activeParsingUsers, results, logMessages, queue, elapsed>>
    /\ UNCHANGED pureVars

\* fetchWbCatalog threw: findCategoryByUrl rethrows, parseCategory's catch
\* returns false.
FetchFail(c) ==
    /\ sess[c].pc = "fetchCatalog"
    /\ sess' = Exit(sess, c, "false", "fetchFail")
    /\ activeParsingUsers' = ClearActive(sess[c].user)
    /\ UNCHANGED <<results, catalogData, logMessages, queue, elapsed>>
    /\ UNCHANGED pureVars

\* findCategoryByUrl returned null.
ResolveNotFound(c) ==
    /\ sess[c].pc = "resolve"
    /\ ~sess[c].found
    /\ sess' = Exit(sess, c, "false", "notFound")
    /\ activeParsingUsers' = ClearActive(sess[c].user)
    /\ UNCHANGED <<results, catalogData, logMessages, queue, elapsed>>
    /\ UNCHANGED pureVars

ResolveFoundMut(c) ==
    /\ sess[c].pc = "resolve"
    /\ sess[c].found
    /\ LET r == QueueAdd([sess EXCEPT ![c].page = 2, ![c].found = FALSE], queue, c) IN
        /\ sess' = r.sess
        /\ queue' = r.queue
        /\ elapsed' = IF r.started THEN 0 ELSE elapsed
    /\ UNCHANGED <<activeParsingUsers, results, catalogData, logMessages>>
    /\ UNCHANGED pureVars

\* findCategoryByUrl returned a category: the loop submits page 1.
ResolveFound(c) ==
    /\ sess[c].pc = "resolve"
    /\ sess[c].found
    /\ LET r == QueueAdd([sess EXCEPT ![c].page = 1, ![c].found = FALSE], queue, c) IN
        /\ sess' = r.sess
        /\ queue' = r.queue
        /\ elapsed' = IF r.started THEN 0 ELSE elapsed
    /\ UNCHANGED <<activeParsingUsers, results, catalogData, logMessages>>
    /\ UNCHANGED pureVars

\* ---------------------------------------------------------- scrapeWbPage
\* The task settles and the caller resumes at position `to`.
Settle(c, to, why) ==
    LET r == QueueNext([sess EXCEPT ![c].pc = to, ![c].loopExit = why,
                                    ![c].attempt = 0,
                                    ![c].gets = 0,
                                    ![c].enr = "none"],
                       queue) IN
        /\ sess' = r.sess
        /\ queue' = r.queue
        /\ elapsed' = IF r.started THEN 0 ELSE elapsed

\* axios.get resolved: the page is logged and the pacing sleep begins.
GetOk(c, p) ==
    /\ sess[c].pc = "get"
    /\ sess' = [sess EXCEPT ![c].pc = "pace", ![c].products = p]
    /\ UNCHANGED <<activeParsingUsers, results, catalogData, logMessages, queue, elapsed>>
    /\ UNCHANGED pureVars

\* axios.get rejected with status 429: attempt++, the user is told, and the
\* 30 s wait begins.
Get429(c) ==
    /\ sess[c].pc = "get"
    /\ sess' = [sess EXCEPT ![c].pc = "wait429", ![c].attempt = @ + 1]
    /\ UNCHANGED <<activeParsingUsers, results, catalogData, logMessages, queue, elapsed>>
    /\ UNCHANGED pureVars

GetErrorMut(c) ==
    /\ sess[c].pc = "get"
    /\ sess' = [sess EXCEPT ![c].pc = "wait429", ![c].attempt = @ + 1,
                            ![c].loopExit = "scrapeError"]
    /\ UNCHANGED <<activeParsingUsers, results, catalogData, logMessages, queue, elapsed>>
    /\ UNCHANGED pureVars

\* axios.get rejected otherwise: attempt++ and scrapeWbPage throws.
GetError(c) ==
    /\ sess[c].pc = "get"
    /\ Settle(c, "loopCatch", "scrapeError")
    /\ UNCHANGED <<activeParsingUsers, results, catalogData, logMessages>>
    /\ UNCHANGED pureVars

RetryMut(c) ==
    /\ sess[c].pc = "wait429"
    /\ IF sess[c].attempt <= ScrapeMaxRetries
       THEN /\ sess' = [sess EXCEPT ![c].pc = "get", ![c].gets = @ + 1]
            /\ UNCHANGED <<queue, elapsed>>
       ELSE Settle(c, "loopCatch", "rateLimited")
    /\ UNCHANGED <<activeParsingUsers, results, catalogData, logMessages>>
    /\ UNCHANGED pureVars

\* The wait is over and the progress message edited: `continue`.  The while
\* condition lets the next GET go or ends the loop, and then scrapeWbPage throws.
Retry(c) ==
    /\ sess[c].pc = "wait429"
    /\ IF sess[c].attempt < ScrapeMaxRetries
       THEN /\ sess' = [sess EXCEPT ![c].pc = "get", ![c].gets = @ + 1]
            /\ UNCHANGED <<queue, elapsed>>
       ELSE Settle(c, "loopCatch", "rateLimited")
    /\ UNCHANGED <<activeParsingUsers, results, catalogData, logMessages>>
    /\ UNCHANGED pureVars

\* bot.sendMessage or bot.editMessageText threw inside the 429 branch: the
\* error leaves scrapeWbPage.
RetryNotifyFail(c) ==
    /\ sess[c].pc = "wait429"
    /\ Settle(c, "loopCatch", "retryNotifyError")
    /\ UNCHANGED <<activeParsingUsers, results, catalogData, logMessages>>
    /\ UNCHANGED pureVars

\* The pacing sleep is over: scrapeWbPage returns, the task resolves and
\* parseCategory awaits updateLogMessage.
PaceDone(c) ==
    /\ sess[c].pc = "pace"
    /\ Settle(c, "afterScrape", "none")
    /\ UNCHANGED <<activeParsingUsers, results, catalogData, logMessages>>
    /\ UNCHANGED pureVars

\* ------------------------------------------------ the page loop, continued
UpdateLogOkMut(c) ==
    /\ sess[c].pc = "afterScrape"
    /\ logMessages' = logMessages \cup {sess[c].user}
    /\ sess' = [sess EXCEPT ![c].pc = "enrich", ![c].eattempt = 0,
                            ![c].posts = 1, ![c].products = FALSE]
    /\ UNCHANGED <<activeParsingUsers, results, catalogData, queue, elapsed>>
    /\ UNCHANGED pureVars

\* updateLogMessage returned.  No products: the stop is logged.  Products:
\* queryEvirmaApi posts them.
UpdateLogOk(c) ==
    /\ sess[c].pc = "afterScrape"
    /\ logMessages' = logMessages \cup {sess[c].user}
    /\ sess' = IF sess[c].products
               THEN [sess EXCEPT ![c].pc = "enrich", ![c].eattempt = 0,
                                 ![c].posts = 1, ![c].products = FALSE]
               ELSE [sess EXCEPT ![c].pc = "stopLog", ![c].products = FALSE]
    /\ UNCHANGED <<activeParsingUsers, results, catalogData, queue, elapsed>>
    /\ UNCHANGED pureVars

\* updateLogMessage threw: only its first bot.sendMessage is outside a try.
UpdateLogFail(c) ==
    /\ sess[c].pc = "afterScrape"
    /\ sess[c].user \notin logMessages
    /\ sess' = [sess EXCEPT ![c].pc = "loopCatch", ![c].loopExit = "logError",
                            ![c].products = FALSE]
    /\ UNCHANGED <<activeParsingUsers, results, catalogData, logMessages, queue, elapsed>>
    /\ UNCHANGED pureVars

\* `break` on a page without products.
StopLog(c) ==
    /\ sess[c].pc = "stopLog"
    /\ sess' = Reporting(sess, c, results, "noProducts")
    /\ UNCHANGED <<activeParsingUsers, results, catalogData, logMessages, queue, elapsed>>
    /\ UNCHANGED pureVars

\* catch (error) of the loop body: the user is told, then `break`.
LoopCatch(c) ==
    /\ sess[c].pc = "loopCatch"
    /\ sess' = Reporting(sess, c, results, sess[c].loopExit)
    /\ UNCHANGED <<activeParsingUsers, results, catalogData, logMessages, queue, elapsed>>
    /\ UNCHANGED pureVars

\* bot.sendMessage threw in the loop's catch: parseCategory's catch returns false.
LoopCatchFail(c) ==
    /\ sess[c].pc = "loopCatch"
    /\ sess' = Exit(sess, c, "false", "notifyFail")
    /\ activeParsingUsers' = ClearActive(sess[c].user)
    /\ UNCHANGED <<results, catalogData, logMessages, queue, elapsed>>
    /\ UNCHANGED pureVars

\* ------------------------------------------------------------ EvirmaClient
\* A value of product_count or freq_syn.monthly: a number or undefined.
Undef == [def |-> FALSE, n |-> 0]
Num(n) == [def |-> TRUE, n |-> n]
CountValues == {Undef, Num(-1), Num(0), Num(5)}

\* The entries response.data.data.keywords can hold under keyword number kw:
\* cluster null, cluster missing, or a cluster object with its two counts.
NoCluster(kw, cl) == [kw |-> kw, cluster |-> cl, product_count |-> Undef, monthly |-> Undef]
Entries(kw) ==
    {NoCluster(kw, cl) : cl \in {"null", "undefined"}}
    \cup {[kw |-> kw, cluster |-> "object", product_count |-> p, monthly |-> m] :
                p \in CountValues, m \in CountValues}

\* The responses: keywords 1..n in the order of the object's keys.
ResponsesOfLen(n) ==
    {r \in [1..n -> UNION {Entries(kw) : kw \in 1..n}] : \A i \in 1..n : r[i].kw = i}
Responses == UNION {ResponsesOfLen(n) : n \in 0..MaxKeywords}

\* The responses the sessions receive: at most one keyword, no negative count.
SessionResponses ==
    {r \in ResponsesOfLen(0) \cup ResponsesOfLen(1) :
        \A i \in DOMAIN r : r[i].product_count.n >= 0 /\ r[i].monthly.n >= 0}

\* Those of them in which no entry has two positive counts.
RowlessResponses ==
    {r \in SessionResponses :
        \A i \in DOMAIN r : ~(r[i].product_count.n > 0 /\ r[i].monthly.n > 0)}

TruthyMut(v) == v.def

\* JavaScript's truthiness of such a value: undefined and 0 are falsy.
Truthy(v) == v.def /\ v.n # 0

\* .filter(([, data]) => data.cluster !== null)
ClusterNotNull(e) == e.cluster # "null"
FilterNullCluster(resp) == SelectSeq(resp, ClusterNotNull)

ReturnsNullMut(resp) ==
    \A i \in DOMAIN resp :
        ~(resp[i].cluster = "object" /\ Truthy(resp[i].product_count)
                                    /\ Truthy(resp[i].monthly))

\* queryEvirmaApi returns null when filteredData.data.keywords has no keys,
\* and filteredData otherwise.
ReturnsNull(resp) == Len(FilterNullCluster(resp)) = 0

\* parseEvirmaResponse: `continue` when !keywordData.cluster,
\* !cluster.product_count or !cluster.freq_syn?.monthly.
Kept(e) == e.cluster = "object" /\ Truthy(e.product_count) /\ Truthy(e.monthly)

\* The row pushed for a kept entry.
EvirmaRow(e) == [name |-> e.kw, count |-> e.product_count.n, freq |-> e.monthly.n]

\* parseEvirmaResponse: one row for every kept entry, in the order of the keys.
ParseEvirmaResponse(data) ==
    LET kept == SelectSeq(data, Kept) IN [i \in 1..Len(kept) |-> EvirmaRow(kept[i])]

\* ghost: what a response holds, told from the response alone: only entries
\* with cluster null (or none); some entry with a cluster and two positive
\* counts; or neither.
ResponseClass(resp) ==
    IF \A i \in DOMAIN resp : resp[i].cluster = "null" THEN "allNull"
    ELSE IF \E i \in DOMAIN resp : /\ resp[i].cluster = "object"
                                    /\ resp[i].product_count.def
                                    /\ resp[i].product_count.n > 0
                                    /\ resp[i].monthly.def
                                    /\ resp[i].monthly.n > 0
         THEN "usable"
         ELSE "unusable"

\* axios.post resolved.  null: `break`.  Otherwise the page's rows are pushed
\* to this.results and the loop goes to the next page or ends at MAX_PAGES.
EnrichOk(c, resp) ==
    /\ sess[c].pc = "enrich"
    /\ IF ReturnsNull(resp)
       THEN /\ sess' = Reporting([sess EXCEPT ![c].eattempt = 0, ![c].posts = 0,
                                               ![c].enr = ResponseClass(resp)],
                                  c, results, "noClusters")
            /\ UNCHANGED <<results, queue, elapsed>>
       ELSE LET parsed == ParseEvirmaResponse(FilterNullCluster(resp))
                rows == [i \in 1..Len(parsed) |-> Row(c, sess[c].page)]
                res  == results \o rows
                s1   == [sess EXCEPT ![c].own = @ \o rows, ![c].page = @ + 1,
                                         ![c].eattempt = 0, ![c].posts = 0,
                                         ![c].enr = ResponseClass(resp)]
            IN  /\ results' = res
                /\ IF sess[c].page + 1 <= MAX_PAGES
                   THEN LET r == QueueAdd(s1, queue, c) IN
                            /\ sess' = r.sess
                            /\ queue' = r.queue
                            /\ elapsed' = IF r.started THEN 0 ELSE elapsed
                   ELSE /\ sess' = Reporting(s1, c, res, "maxPages")
                        /\ UNCHANGED <<queue, elapsed>>
    /\ UNCHANGED <<activeParsingUsers, catalogData, logMessages>>
    /\ UNCHANGED pureVars

EnrichFailMut(c) ==
    /\ sess[c].pc = "enrich"
    /\ sess' = IF sess[c].eattempt + 1 > EvirmaMaxRetries
               THEN [sess EXCEPT ![c].pc = "enrichCatch", ![c].eattempt = 0,
                                 ![c].posts = 0, ![c].loopExit = "enrichError"]
               ELSE [sess EXCEPT ![c].pc = "ewait", ![c].eattempt = @ + 1]
    /\ UNCHANGED <<activeParsingUsers, results, catalogData, logMessages, queue, elapsed>>
    /\ UNCHANGED pureVars

\* axios.post rejected: attempt++; the last attempt throws, the others wait 2 s.
EnrichFail(c) ==
    /\ sess[c].pc = "enrich"
    /\ sess' = IF sess[c].eattempt + 1 >= EvirmaMaxRetries
               THEN [sess EXCEPT ![c].pc = "enrichCatch", ![c].eattempt = 0,
                                 ![c].posts = 0, ![c].loopExit = "enrichError"]
               ELSE [sess EXCEPT ![c].pc = "ewait", ![c].eattempt = @ + 1]
    /\ UNCHANGED <<activeParsingUsers, results, catalogData, logMessages, queue, elapsed>>
    /\ UNCHANGED pureVars

EnrichRetryMut(c) ==
    /\ sess[c].pc = "ewait"
    /\ sess' = [sess EXCEPT ![c].pc = "enrich", ![c].eattempt = 0, ![c].posts = @ + 1]
    /\ UNCHANGED <<activeParsingUsers, results, catalogData, logMessages, queue, elapsed>>
    /\ UNCHANGED pureVars

\* The 2 s delay is over: the while loop posts again.
EnrichRetry(c) ==
    /\ sess[c].pc = "ewait"
    /\ sess' = [sess EXCEPT ![c].pc = "enrich", ![c].posts = @ + 1]
    /\ UNCHANGED <<activeParsingUsers, results, catalogData, logMessages, queue, elapsed>>
    /\ UNCHANGED pureVars

\* The inner catch around queryEvirmaApi: the user is told, then `break`.
EnrichCatch(c) ==
    /\ sess[c].pc = "enrichCatch"
    /\ sess' = Reporting(sess, c, results, "enrichError")
    /\ UNCHANGED <<activeParsingUsers, results, catalogData, logMessages, queue, elapsed>>
    /\ UNCHANGED pureVars

\* bot.sendMessage threw in the inner catch: the loop's catch takes it.
EnrichCatchFail(c) ==
    /\ sess[c].pc = "enrichCatch"
    /\ sess' = [sess EXCEPT ![c].pc = "loopCatch"]
    /\ UNCHANGED <<activeParsingUsers, results, catalogData, logMessages, queue, elapsed>>
    /\ UNCHANGED pureVars

\* -------------------------------------------------------------- reporting
\* `return await bot.sendMessage(...)` of the zero-row branch: parseCategory
\* returns what sendMessage resolved to, the Telegram message object.
NotifyEmptyOk(c) ==
    /\ sess[c].pc = "notifyEmpty"
    /\ sess' = Exit(sess, c, "message", "zeroRows")
    /\ activeParsingUsers' = ClearActive(sess[c].user)
    /\ UNCHANGED <<results, catalogData, logMessages, queue, elapsed>>
    /\ UNCHANGED pureVars

NotifyEmptyFail(c) ==
    /\ sess[c].pc = "notifyEmpty"
    /\ sess' = Exit(sess, c, "false", "notifyFail")
    /\ activeParsingUsers' = ClearActive(sess[c].user)
    /\ UNCHANGED <<results, catalogData, logMessages, queue, elapsed>>
    /\ UNCHANGED pureVars

\* saveToExcel wrote the file and returned its path: sendExcelToUser is called.
ExportOk(c) ==
    /\ sess[c].pc = "export"
    /\ sess' = [sess EXCEPT ![c].pc = "deliver", ![c].handed = <<>>, ![c].own = <<>>,
                            ![c].enr = "none"]
    /\ UNCHANGED <<activeParsingUsers, results, catalogData, logMessages, queue, elapsed>>
    /\ UNCHANGED pureVars

\* saveToExcel threw (fs.writeFile): parseCategory's catch returns false.
ExportFail(c) ==
    /\ sess[c].pc = "export"
    /\ sess' = Exit(sess, c, "false", "exportFail")
    /\ activeParsingUsers' = ClearActive(sess[c].user)
    /\ UNCHANGED <<results, catalogData, logMessages, queue, elapsed>>
    /\ UNCHANGED pureVars

\* sendExcelToUser sent the document: `return true`.
DeliverOk(c) ==
    /\ sess[c].pc = "deliver"
    /\ sess' = Exit(sess, c, "true", "reported")
    /\ activeParsingUsers' = ClearActive(sess[c].user)
    /\ UNCHANGED <<results, catalogData, logMessages, queue, elapsed>>
    /\ UNCHANGED pureVars

\* fs.access or bot.sendDocument threw: sendExcelToUser's catch tells the user.
DeliverFail(c) ==
    /\ sess[c].pc = "deliver"
    /\ sess' = [sess EXCEPT ![c].pc = "deliverCatch"]
    /\ UNCHANGED <<activeParsingUsers, results, catalogData, logMessages, queue, elapsed>>
    /\ UNCHANGED pureVars

\* The notice was sent: sendExcelToUser returns and parseCategory returns true.
DeliverCatchOk(c) ==
    /\ sess[c].pc = "deliverCatch"
    /\ sess' = Exit(sess, c, "true", "deliverFailed")
    /\ activeParsingUsers' = ClearActive(sess[c].user)
    /\ UNCHANGED <<results, catalogData, logMessages, queue, elapsed>>
    /\ UNCHANGED pureVars

\* The notice threw too: parseCategory's catch returns false.
DeliverCatchFail(c) ==
    /\ sess[c].pc = "deliverCatch"
    /\ sess' = Exit(sess, c, "false", "notifyFail")
    /\ activeParsingUsers' = ClearActive(sess[c].user)
    /\ UNCHANGED <<results, catalogData, logMessages, queue, elapsed>>
    /\ UNCHANGED pureVars

\* ------------------------------------------------------------- handleText
\* success ? "Парсинг завершён." : "Ошибка: Категория не найдена."
FinalMessage(r) == IF r \in {"true", "message"} THEN "completed" ELSE "notFound"

\* parseCategory's closing log line is written and it returns; handleText
\* clears the user's log entry and sends the closing message.
Return(c) ==
    /\ sess[c].pc = "returning"
    /\ logMessages' = logMessages \ {sess[c].user}
    /\ sess' = [sess EXCEPT ![c].pc = "done", ![c].finalMsg = FinalMessage(sess[c].ret),
                            ![c].loopExit = "none", ![c].reported = FALSE,
                            ![c].exports = 0]
    /\ UNCHANGED <<activeParsingUsers, results, catalogData, queue, elapsed>>
    /\ UNCHANGED pureVars

\* ------------------------------------------------------------------- time
\* 2000 ms pass.
Tick ==
    /\ elapsed < Interval
    /\ elapsed' = elapsed + 1
    /\ UNCHANGED <<sess, activeParsingUsers, results, catalogData, logMessages, queue>>
    /\ UNCHANGED pureVars

\* The steps of one call after its start.
Resolve(c) == FetchOk(c) \/ FetchFail(c) \/ ResolveNotFound(c) \/ ResolveFound(c)

Scrape(c) ==
    \/ \E p \in BOOLEAN : GetOk(c, p)
    \/ Get429(c)
    \/ GetError(c)
    \/ Retry(c)
    \/ RetryNotifyFail(c)
    \/ PaceDone(c)

Loop(c) ==
    \/ UpdateLogOk(c)
    \/ UpdateLogFail(c)
    \/ StopLog(c)
    \/ LoopCatch(c)
    \/ LoopCatchFail(c)

Enrich(c) ==
    \/ \E resp \in SessionResponses : EnrichOk(c, resp)
    \/ EnrichFail(c)
    \/ EnrichRetry(c)
    \/ EnrichCatch(c)
    \/ EnrichCatchFail(c)

Report(c) ==
    \/ NotifyEmptyOk(c)
    \/ NotifyEmptyFail(c)
    \/ ExportOk(c)
    \/ ExportFail(c)
    \/ DeliverOk(c)
    \/ DeliverFail(c)
    \/ DeliverCatchOk(c)
    \/ DeliverCatchFail(c)

\* Two calls, in either order: c1 is for user u1 and c2 for u1 or u2, which
\* gives, up to the names of the users, every combination of a running session
\* with a duplicate call, a following call or another user's session.
TwoCalls == {"c1", "c2"}
UsersFor(c) == IF c = "c1" THEN {"u1"} ELSE {"u1", "u2"}

Next ==
    \/ \E c \in TwoCalls, f \in BOOLEAN : \E u \in UsersFor(c) : Start(c, u, f)
    \/ \E c \in Calls : Resolve(c)
    \/ \E c \in Calls : Scrape(c)
    \/ \E c \in Calls : Loop(c)
    \/ \E c \in Calls : Enrich(c)
    \/ \E c \in Calls : Report(c)
    \/ \E c \in Calls : Return(c)

Spec == Init /\ [][Next]_vars

\* One call, with every outcome of every awaited call, under fairness: every
\* awaited call settles (a response, an error or a timer) and the event loop
\* then runs the continuation, so a step that stays possible is taken.  (With
\* Concurrency = 2 a second session never makes the first wait in the queue;
\* waiting behind other sessions is the subject of SpecFifo.)
NextSession ==
    \/ \E f \in BOOLEAN : Start("c1", "u1", f)
    \/ \E c \in Calls : Resolve(c)
    \/ \E c \in Calls : Scrape(c)
    \/ \E c \in Calls : Loop(c)
    \/ \E c \in Calls : Enrich(c)
    \/ \E c \in Calls : Report(c)
    \/ \E c \in Calls : Return(c)

SpecSession == Init /\ [][NextSession]_vars /\ WF_vars(NextSession)

\* The same calls with the passing of time.
NextTimed == Next \/ Tick

SpecTimed == Init /\ [][NextTimed]_vars

\* Three calls of three different users, so that three sessions submit page
\* scrapes to the queue at once.  The sessions meet every outcome of a scrape
\* task (success, 429 and retry, retries exhausted, any other error, a failed
\* retry notice); the environment outside the queue is kept to the outcomes
\* that let a session submit its next page or stop: the catalog is fetched, the
\* URL matches, enrichment answers, notices are delivered.
ThreeCalls == {"c1", "c2", "c3"}
UserOf(c) == IF c = "c1" THEN "u1" ELSE IF c = "c2" THEN "u2"
             ELSE IF c = "c3" THEN "u3" ELSE "u4"

NextQueue ==
    \/ \E c \in ThreeCalls : Start(c, UserOf(c), TRUE)
    \/ \E c \in Calls : FetchOk(c)
    \/ \E c \in Calls : ResolveFound(c)
    \/ \E c \in Calls : Scrape(c)
    \/ \E c \in Calls : UpdateLogOk(c)
    \/ \E c \in Calls : StopLog(c)
    \/ \E c \in Calls : LoopCatch(c)
    \/ \E c \in Calls, resp \in RowlessResponses : EnrichOk(c, resp)
    \/ \E c \in Calls : NotifyEmptyOk(c)
    \/ \E c \in Calls : Return(c)

SpecQueue == Init /\ [][NextQueue]_vars

\* Four calls of four different users, so that two scrape tasks wait in the
\* queue while two run.  The calls are alike, so they are taken to reach the
\* queue in the order c1, c2, c3, c4: a call starts when the calls before it
\* have submitted their page 1.  The tasks of c1 and c2 meet rate limits (up to
\* the whole retry budget); every page comes back empty, so each session
\* submits one task.  Every continuation of the program is run by the event
\* loop once its awaited call settles, and every awaited call settles (a
\* response, an error or a timer), which is the weak fairness of the steps.
Before(c) == IF c = "c1" THEN {} ELSE IF c = "c2" THEN {"c1"}
             ELSE IF c = "c3" THEN {"c1", "c2"} ELSE {"c1", "c2", "c3"}

Submitted(cs) == \A b \in cs : sess[b].pc \notin {"idle", "fetchCatalog", "resolve"}

NextFifo ==
    \/ \E c \in Calls : Submitted(Before(c)) /\ Start(c, UserOf(c), TRUE)
    \/ \E c \in Calls : FetchOk(c)
    \/ \E c \in Calls : ResolveFound(c)
    \/ \E c \in Calls : GetOk(c, FALSE)
    \/ \E c \in {"c1", "c2"} : Get429(c)
    \/ \E c \in Calls : GetError(c)
    \/ \E c \in Calls : Retry(c)
    \/ \E c \in Calls : PaceDone(c)
    \/ \E c \in Calls : UpdateLogOk(c)
    \/ \E c \in Calls : StopLog(c)
    \/ \E c \in Calls : LoopCatch(c)
    \/ \E c \in Calls : NotifyEmptyOk(c)
    \/ \E c \in Calls : Return(c)

SpecFifo == Init /\ [][NextFifo]_vars /\ WF_vars(NextFifo)

\* ---------------------------------------------------- findCategoryByUrl
\* Strings are modelled by their parts.  A path is the sequence of its
\* segments, a trailing slash being a trailing empty segment.  A query string
\* is a sequence of tokens: key=value pairs and the separator "&".
Param(k, v) == [k |-> k, v |-> v]
Amp == [k |-> "&", v |-> ""]

\* String.prototype.toLowerCase on the segments of the model.
Lower(seg) == IF seg = "Vannaya" THEN "vannaya" ELSE IF seg = "Dom" THEN "dom" ELSE seg

\* .replace(/\/+$/, "")
RECURSIVE StripTrailingSlashes(_)
StripTrailingSlashes(p) ==
    IF Len(p) > 0 /\ p[Len(p)] = ""
    THEN StripTrailingSlashes(SubSeq(p, 1, Len(p) - 1))
    ELSE p

\* cat.url.toLowerCase().replace(/\/+$/, "")
Normalize(p) == StripTrailingSlashes([i \in 1..Len(p) |-> Lower(p[i])])

\* The catalog trees of the model: Dom, with the child Vannaya, whose base
\* query is missing or "cat=1".  A missing shard or query is the empty value
\* (`node.shard || null`, `node.query || null`, and later `category.query || ""`).
BaseQueries == {<<>>, <<Param("cat", "1")>>}
Vannaya(q) == [name |-> "Vannaya", url |-> <<"catalog", "dom", "vannaya">>,
               shard |-> "shard", query |-> q, childs |-> <<>>]
Dom(q) == [name |-> "Dom", url |-> <<"catalog", "dom">>,
           shard |-> "", query |-> <<>>, childs |-> <<Vannaya(q)>>]
Catalogs == {<<Dom(q)>> : q \in BaseQueries}

\* The URLs of the model: a path and up to MaxParams query parameters.
Paths == {<<"catalog", "dom", "vannaya">>, <<"catalog", "dom", "Vannaya", "">>,
          <<"catalog", "Dom">>, <<"catalog", "kuhnya">>}
ParamKeys == {"priceU", "xsubject", "fbrand", "fsupplier", "sort", "page"}
ParamValues == {"", "newly"}
ParamLists ==
    UNION {[1..n -> {Param(k, v) : k \in ParamKeys, v \in ParamValues}] : n \in 0..MaxParams}

\* extractCategoryData: the nodes in depth-first order, each before its childs.
RECURSIVE ExtractCategoryData(_)
ExtractCategoryData(nodes) ==
    IF Len(nodes) = 0 THEN <<>>
    ELSE LET node == Head(nodes) IN
         <<[name |-> node.name, shard |-> node.shard, url |-> node.url,
            query |-> node.query]>>
         \o ExtractCategoryData(node.childs)
         \o ExtractCategoryData(Tail(nodes))

\* searchParams.get(name) || null: the first value of the name; a missing name
\* and an empty value both end as the empty value.
RECURSIVE SearchGet(_, _)
SearchGet(params, name) ==
    IF Len(params) = 0 THEN ""
    ELSE IF Head(params).k = name THEN Head(params).v
    ELSE SearchGet(Tail(params), name)

\* const filterParams = { ... sort: searchParams.get("sort") || "popular" }
FilterParams(params) ==
    [priceU    |-> SearchGet(params, "priceU"),
     xsubject  |-> SearchGet(params, "xsubject"),
     fbrand    |-> SearchGet(params, "fbrand"),
     fsupplier |-> SearchGet(params, "fsupplier"),
     sort      |-> IF SearchGet(params, "sort") = "" THEN "popular"
                   ELSE SearchGet(params, "sort")]

\* if (filterParams.x) query += `&x=${filterParams.x}`
AppendParam(query, name, value) ==
    IF value # "" THEN query \o <<Amp, Param(name, value)>> ELSE query

BuildQueryMut(base, fp) ==
    AppendParam(AppendParam(AppendParam(AppendParam(AppendParam(base,
        "sort", fp.sort), "priceU", fp.priceU), "xsubject", fp.xsubject),
        "fbrand", fp.fbrand), "fsupplier", fp.fsupplier)

\* let query = category.query || ""; followed by the five appends, in the
\* order of the source.
BuildQuery(base, fp) ==
    AppendParam(AppendParam(AppendParam(AppendParam(AppendParam(base,
        "priceU", fp.priceU), "xsubject", fp.xsubject), "fbrand", fp.fbrand),
        "fsupplier", fp.fsupplier), "sort", fp.sort)

\* categories.find(...): the indices of the categories whose normalized url
\* equals the normalized path; find takes the first.
Matches(cats, path) == {i \in DOMAIN cats : Normalize(cats[i].url) = Normalize(path)}
First(hits) == CHOOSE i \in hits : \A j \in hits : i <= j

\* findCategoryByUrl with the catalog at hand: <<>> for null, or the category
\* with its query rebuilt.
FindCategoryByUrl(catalog, path, params) ==
    LET cats == ExtractCategoryData(catalog)
        hits == Matches(cats, path)
    IN  IF hits = {} THEN <<>>
        ELSE LET category == cats[First(hits)] IN
             <<[category EXCEPT !.query = BuildQuery(category.query, FilterParams(params))]>>

\* One evaluation of findCategoryByUrl on every catalog and URL of the model.
InitFinder ==
    /\ InitSessions
    /\ evirma = EvirmaIdle
    /\ finder \in {[phase |-> "call", catalog |-> cat, path |-> p, params |-> ps,
                     out |-> <<>>] :
                        cat \in Catalogs, p \in Paths, ps \in ParamLists}

FindCategory ==
    /\ finder.phase = "call"
    /\ finder' = [finder EXCEPT
                    !.phase = "done",
                    !.out = FindCategoryByUrl(finder.catalog, finder.path, finder.params)]
    /\ UNCHANGED <<sessionVars, evirma>>

NextFinder == FindCategory

SpecFinder == InitFinder /\ [][NextFinder]_vars

\* One evaluation of the enrichment functions on every response of the
\* model: queryEvirmaApi filters the response it received and returns the
\* filtered data or null; parseEvirmaResponse turns the filtered data into
\* rows, which parseCategory pushes to this.results.
InitEvirma ==
    /\ InitSessions
    /\ evirma \in {[phase |-> "response", resp |-> r, data |-> <<>>, rows |-> <<>>] :
                        r \in Responses}
    /\ finder = FinderIdle

QueryEvirmaApi ==
    /\ evirma.phase = "response"
    /\ evirma' = IF ReturnsNull(evirma.resp)
                 THEN [evirma EXCEPT !.phase = "null"]
                 ELSE [evirma EXCEPT !.phase = "filtered",
                                     !.data = FilterNullCluster(evirma.resp)]
    /\ UNCHANGED <<sessionVars, finder>>

ParseResponse ==
    /\ evirma.phase = "filtered"
    /\ evirma' = [evirma EXCEPT !.phase = "parsed",
                                !.rows = ParseEvirmaResponse(evirma.data)]
    /\ UNCHANGED <<sessionVars, finder>>

NextEvirma == QueryEvirmaApi \/ ParseResponse

SpecEvirma == InitEvirma /\ [][NextEvirma]_vars

\* ----------------------------------------------------------------- claims
\* The session body of a call is in progress: category resolution, the page
\* loop or reporting.
InSession(c) == sess[c].pc \notin {"idle", "returning", "done"}

\* The call was admitted and its finally block has run.
Exited(c) == sess[c].pc \in {"returning", "done"} /\ sess[c].exitPath # "duplicate"

\* The reporting step of the call has just read this.results.
AtReporting(c) == sess[c].pc \in {"notifyEmpty", "export"}

\* A scrapeWbPage task of the call is running.
TaskRunning(c) == sess[c].pc \in {"get", "wait429", "pace"}

\* C1: at most one parsing session per user is in progress at any time: no two
\* calls of the same user are inside the session body together.
C1_OneSessionPerUser ==
    \A c, d \in Calls :
        (c # d /\ InSession(c) /\ InSession(d)) => sess[c].user # sess[d].user

\* A second call of the user was made while the first was in its session.
C1_Witness ==
    \E c, d \in Calls :
        /\ InSession(c)
        /\ sess[d].exitPath = "duplicate"
        /\ sess[d].user = sess[c].user

\* C2: the call that is rejected as a duplicate returns false and changes
\* nothing: the active set, the accumulated rows and the running sessions stay
\* as they were.
C2_RejectedCallChangesNothing ==
    [][\A c \in Calls :
          (sess[c].pc = "idle" /\ sess'[c].exitPath = "duplicate") =>
              /\ sess'[c].ret = "false"
              /\ activeParsingUsers' = activeParsingUsers
              /\ results' = results
              /\ \A d \in Calls \ {c} : sess'[d] = sess[d]]_vars

\* A call was rejected while the user's running session holds rows.
C2_Witness ==
    \E c, d \in Calls :
        /\ sess[c].exitPath = "duplicate"
        /\ InSession(d)
        /\ sess[d].user = sess[c].user
        /\ Len(sess[d].own) > 0
        /\ Len(results) > 0

\* C3: once an admitted call has left its try block, on whatever path, its
\* user is not in the active set, unless a later call of the same user was
\* admitted and is in its session: no marker outlives its session.
C3_MarkerCleared ==
    \A c \in Calls :
        (Exited(c) /\ sess[c].user \in activeParsingUsers) =>
            \E d \in Calls \ {c} : InSession(d) /\ sess[d].user = sess[c].user

\* A call ended on an exception path and a following call of the same user
\* was admitted.
C3_Witness ==
    \E c, d \in Calls :
        /\ c # d
        /\ sess[c].pc = "done"
        /\ sess[c].exitPath \in {"fetchFail", "notifyFail", "exportFail"}
        /\ sess[d].user = sess[c].user
        /\ InSession(d)

\* C4: the rows a session's reporting step works on are exactly the rows made
\* from that session's own pages, in page order.
C4_OwnRowsOnly ==
    \A c \in Calls : AtReporting(c) => sess[c].handed = sess[c].own

\* C5: parseCategory returns true on every path that reached reporting, and
\* false only when the category was not found, the setup failed or the call
\* was a duplicate.
C5_ReturnValue ==
    \A c \in Calls :
        sess[c].pc = "returning" =>
            /\ sess[c].reported => sess[c].ret = "true"
            /\ sess[c].ret = "false" =>
                   sess[c].exitPath \in {"notFound", "fetchFail", "duplicate"}

\* An error left scrapeWbPage or queryEvirmaApi during the page loop.
LoopError(c) ==
    sess[c].loopExit \in {"scrapeError", "rateLimited", "retryNotifyError", "enrichError"}

\* C6: after an error of the scrape or of the enrichment the session scrapes no
\* further page and always reaches reporting, with exactly the rows of its
\* earlier pages.
C6_ErrorEndsLoopOnly ==
    \A c \in Calls :
        LoopError(c) =>
            /\ ~TaskRunning(c) /\ sess[c].pc # "queued"
            /\ sess[c].pc = "returning" => sess[c].reported
            /\ AtReporting(c) => sess[c].handed = sess[c].own

\* C7: in the reporting step saveToExcel is called at most once, and it is
\* called exactly when the session accumulated at least one row; with no row
\* the session sends the zero-row notice instead.
C7_ExportIffRows ==
    \A c \in Calls :
        AtReporting(c) =>
            /\ sess[c].exports <= 1
            /\ sess[c].exports = 1 <=> sess[c].pc = "export"
            /\ sess[c].pc = "export" <=> Len(sess[c].own) > 0

\* C8: the closing message of a session whose catalog fetch failed is not the
\* "category not found" message.
C8_FetchFailureNotNotFound ==
    \A c \in Calls :
        (sess[c].pc = "done" /\ sess[c].exitPath = "fetchFail") =>
            sess[c].finalMsg # "notFound"

\* C9: every running scrapeWbPage task holds a slot of the one queue, and no
\* more than Concurrency of them run at any time.
C9_AtMostTwoScrapes ==
    /\ Cardinality({c \in Calls : TaskRunning(c)}) = queue.pending
    /\ Cardinality({c \in Calls : TaskRunning(c)}) <= Concurrency

\* Two tasks run and a third session's page waits in the queue.
C9_Witness ==
    /\ Cardinality({c \in Calls : TaskRunning(c)}) = Concurrency
    /\ Len(queue.waiting) = 1

\* The queue starts a task of the call in this step.
TaskStarts(c) ==
    /\ sess[c].pc \in {"resolve", "enrich", "queued"}
    /\ sess'[c].pc = "get"

\* C10: the queue starts no task less than the interval after the start
\* before it.
C10_StartsSpaced ==
    [][\A c \in Calls : TaskStarts(c) => elapsed >= Interval]_vars

\* The scrape task of the call waits in the queue.
Queued(c) == sess[c].pc = "queued"

\* C11: the queue admits waiting tasks in FIFO order (a task leaves the
\* waiting list only from its head) and starves none: under fairness every
\* task that waits is eventually started, whatever the other sessions submit
\* and however long the running tasks spend in rate-limit waits.
C11_FifoNoStarvation ==
    /\ [][\A c \in Calls : (Queued(c) /\ TaskStarts(c)) => Head(queue.waiting) = c]_vars
    /\ \A c \in Calls : Queued(c) ~> TaskRunning(c)

\* Two tasks wait, in the order c3, c4, behind a running task that has used
\* its whole retry budget in rate-limit waits.
C11_Witness ==
    /\ queue.waiting = <<"c3", "c4">>
    /\ \E c \in Calls : sess[c].pc = "wait429" /\ sess[c].attempt = ScrapeMaxRetries

\* C12: scrapeWbPage issues at most ScrapeMaxRetries GET requests for a page
\* and every GET after the first follows a rate-limit wait; a page that
\* succeeds after k rate-limited responses took exactly k retries (k + 1 GETs,
\* k < ScrapeMaxRetries); the scrape fails for rate limiting exactly when all
\* ScrapeMaxRetries GETs were answered 429.
C12_ScrapeAttempts ==
    [][\A c \in Calls :
        /\ sess'[c].gets <= ScrapeMaxRetries
        /\ (TaskRunning(c) /\ sess'[c].gets > sess[c].gets) =>
                sess[c].pc = "wait429" /\ sess'[c].gets = sess[c].gets + 1
        /\ (sess[c].pc = "get" /\ sess'[c].pc = "pace") =>
                /\ sess[c].gets = sess[c].attempt + 1
                /\ sess[c].attempt < ScrapeMaxRetries
        /\ (sess[c].pc = "wait429" /\ sess'[c].pc = "loopCatch"
                /\ sess'[c].loopExit = "rateLimited") =>
                sess[c].gets = ScrapeMaxRetries /\ sess[c].attempt = ScrapeMaxRetries
        /\ (sess[c].pc = "wait429" /\ sess[c].attempt = ScrapeMaxRetries
                /\ sess'[c] # sess[c]) =>
                sess'[c].pc = "loopCatch"
        /\ sess'[c].loopExit = "rateLimited" => sess[c].pc \notin {"get", "pace"}]_vars

\* A page succeeds at the last allowed GET, after five rate-limited ones.
C12_Witness ==
    \E c \in Calls : sess[c].pc = "pace" /\ sess[c].gets = ScrapeMaxRetries

\* C13: an error of the GET other than 429 makes scrapeWbPage fail at once:
\* the step that meets it ends the task with no wait and no further GET, also
\* when it follows rate-limited attempts, and the session issues no request
\* for that page afterwards.
C13_OtherErrorFailsAtOnce ==
    [][\A c \in Calls :
        /\ (sess[c].pc = "get" /\ sess'[c].loopExit = "scrapeError") =>
                sess'[c].pc = "loopCatch" /\ sess'[c].gets = 0
        /\ sess[c].loopExit = "scrapeError" =>
                /\ sess'[c].pc \notin {"queued", "get", "wait429", "pace"}
                /\ sess'[c].gets = 0]_vars

\* The GET of page 2 failed with an error other than 429 and the loop's catch
\* has the error; the rows of page 1 are kept.
C13_Witness ==
    \E c \in Calls :
        /\ sess[c].pc = "loopCatch" /\ sess[c].loopExit = "scrapeError"
        /\ sess[c].page = 2 /\ Len(sess[c].own) > 0

\* C14: queryEvirmaApi posts at most EvirmaMaxRetries times for a page, every
\* POST after the first follows the delay, the call fails exactly when the
\* third POST fails, and a POST that succeeds (the first, second or third) ends
\* the call with no further attempt.
C14_EvirmaAttempts ==
    [][\A c \in Calls :
        /\ sess'[c].posts <= EvirmaMaxRetries
        /\ sess'[c].posts > sess[c].posts =>
                /\ sess'[c].posts = sess[c].posts + 1
                /\ sess[c].posts > 0 => sess[c].pc = "ewait"
        /\ sess[c].pc = "enrich" => sess[c].posts = sess[c].eattempt + 1
        /\ (sess[c].pc = "enrich" /\ sess'[c].pc = "enrichCatch") =>
                sess[c].posts = EvirmaMaxRetries
        /\ (sess[c].pc = "enrich" /\ sess'[c].pc = "ewait") =>
                sess[c].posts < EvirmaMaxRetries
        /\ (sess[c].pc = "enrich" /\ sess'[c].pc \notin {"enrich", "ewait"}) =>
                sess'[c].posts = 0]_vars

\* The third POST is out, after two failed ones.
C14_Witness ==
    \E c \in Calls : sess[c].pc = "enrich" /\ sess[c].posts = EvirmaMaxRetries

C16_NoUsableRowsStops ==
    [][\A c \in Calls :
        (sess[c].pc = "enrich" /\ sess'[c].enr \in {"allNull", "unusable"}) =>
            AtReporting(c)']_vars

\* C16 amended: queryEvirmaApi gives its signal (null) exactly when no entry
\* of the response has a cluster other than null, and then the session stops
\* with the rows it has.  A response with such an entry never stops the session,
\* also when none of its entries makes a row: the page adds nothing and the
\* next page is submitted (below MAX_PAGES).
C16_OnlyAllNullStops ==
    [][\A c \in Calls :
        sess[c].pc = "enrich" =>
            /\ sess'[c].enr = "allNull" =>
                    /\ AtReporting(c)' /\ sess'[c].loopExit = "noClusters"
                    /\ sess'[c].own = sess[c].own
            /\ sess'[c].enr \in {"unusable", "usable"} =>
                    /\ sess'[c].loopExit # "noClusters"
                    /\ sess[c].page < MAX_PAGES =>
                            /\ sess'[c].pc \in {"queued", "get"}
                            /\ sess'[c].page = sess[c].page + 1
                    /\ sess'[c].enr = "unusable" => sess'[c].own = sess[c].own]_vars

\* Page 2 is being scraped after a page 1 whose response had an entry with a
\* cluster but made no row.
C16_Witness ==
    \E c \in Calls :
        /\ sess[c].enr = "unusable" /\ sess[c].pc = "get"
        /\ sess[c].page = 2 /\ sess[c].own = <<>>

\* The entries of the evaluated response that make a row: told from the rows'
\* names, which are the keywords.
RowsOf(i) == {j \in DOMAIN evirma.rows : evirma.rows[j].name = evirma.resp[i].kw}

\* C17 as stated: every row comes from an entry with a cluster, a positive
\* product count and a positive monthly frequency, whatever the response holds
\* (zero, negative or missing counts included); every such entry makes
\* exactly one row and no other entry makes any.
C17_RowsFromPositiveEntries ==
    evirma.phase = "parsed" =>
        \A i \in DOMAIN evirma.resp :
            LET e == evirma.resp[i]
                positive == /\ e.cluster = "object"
                            /\ e.product_count.def /\ e.product_count.n > 0
                            /\ e.monthly.def /\ e.monthly.n > 0
            IN  Cardinality(RowsOf(i)) = IF positive THEN 1 ELSE 0

\* C17 amended: the entries that make a row are those with a cluster and with
\* a product count and a monthly frequency that are present and not zero; each
\* makes exactly one row, carrying its counts, in the order of the keywords,
\* and no other entry makes any.  A negative count passes.
C17_RowsFromNonZeroEntries ==
    evirma.phase = "parsed" =>
        /\ \A i \in DOMAIN evirma.resp :
            LET e == evirma.resp[i]
                nonzero == /\ e.cluster = "object"
                           /\ e.product_count.def /\ e.product_count.n # 0
                           /\ e.monthly.def /\ e.monthly.n # 0
            IN  /\ Cardinality(RowsOf(i)) = IF nonzero THEN 1 ELSE 0
                /\ \A j \in RowsOf(i) : /\ evirma.rows[j].count = e.product_count.n
                                         /\ evirma.rows[j].freq = e.monthly.n
        /\ \A j \in DOMAIN evirma.rows : \E i \in DOMAIN evirma.resp : j \in RowsOf(i)
        /\ \A j, k \in DOMAIN evirma.rows : j < k => evirma.rows[j].name < evirma.rows[k].name

\* A response with a zero count, and one with a negative count, were parsed:
\* the second made a row.
C17_Witness ==
    /\ evirma.phase = "parsed"
    /\ Len(evirma.resp) = 2 /\ Len(evirma.rows) = 1
    /\ evirma.resp[1].cluster = "object" /\ evirma.resp[1].product_count = Num(0)
    /\ evirma.resp[2].cluster = "object" /\ evirma.resp[2].product_count.n < 0

\* The evaluation matched a node; its base query, read from the tree.
Resolved == finder.phase = "done" /\ finder.out # <<>>
BaseOf(name) ==
    LET cats == ExtractCategoryData(finder.catalog)
    IN  cats[CHOOSE i \in DOMAIN cats : cats[i].name = name].query

\* The recognized filter parameters in their fixed order, and the first value
\* the URL gives a key ("" when it gives none).
FixedOrder == <<"priceU", "xsubject", "fbrand", "fsupplier", "sort">>
Rank(key) == CHOOSE i \in DOMAIN FixedOrder : FixedOrder[i] = key
UrlValue(key) ==
    LET at == {i \in DOMAIN finder.params : finder.params[i].k = key}
    IN  IF at = {} THEN ""
        ELSE finder.params[CHOOSE i \in at : \A j \in at : i <= j].v

\* C18: for every matched URL the resolved query is the node's base query
\* followed by one &key=value for each recognized parameter to which the URL
\* gives a (non-empty) value, and for sort in any case, in the fixed order
\* priceU, xsubject, fbrand, fsupplier, sort whatever their order in the URL;
\* each carries the URL's value, and sort is popular when the URL gives none.
C18_FixedParameterOrder ==
    Resolved =>
        LET q    == finder.out[1].query
            base == BaseOf(finder.out[1].name)
            n    == Len(q) - Len(base)
            key(i) == q[Len(base) + 2 * i].k
            val(i) == q[Len(base) + 2 * i].v
        IN  /\ n > 0 /\ n % 2 = 0
            /\ SubSeq(q, 1, Len(base)) = base
            /\ \A i \in 1..(n \div 2) :
                    /\ q[Len(base) + 2 * i - 1] = Amp
                    /\ key(i) \in {FixedOrder[r] : r \in DOMAIN FixedOrder}
                    /\ val(i) = IF key(i) = "sort" /\ UrlValue("sort") = ""
                                THEN "popular" ELSE UrlValue(key(i))
            /\ \A i, j \in 1..(n \div 2) : i < j => Rank(key(i)) < Rank(key(j))
            /\ {key(i) : i \in 1..(n \div 2)} =
                    {k \in {FixedOrder[r] : r \in DOMAIN FixedOrder} : UrlValue(k) # ""}
                    \cup {"sort"}

\* A URL that gives sort before priceU, and an unrecognized parameter,
\* resolved against the node with a base query: the query is cat=1, priceU, sort.
C18_Witness ==
    /\ Resolved
    /\ finder.params = <<Param("sort", "newly"), Param("page", "newly"),
                         Param("priceU", "newly")>>
    /\ finder.out[1].query = <<Param("cat", "1"), Amp, Param("priceU", "newly"),
                               Amp, Param("sort", "newly")>>

\* C19: resolving /catalog/dom/vannaya?sort=newly against the tree
\* [Dom{/catalog/dom, childs: [Vannaya{/catalog/dom/vannaya}]}] yields the
\* node Vannaya with the query sort=newly exactly, and for every matched node
\* without a base query the resolved query does not begin with the separator.
C19_NoLeadingSeparator ==
    Resolved =>
        /\ BaseOf(finder.out[1].name) = <<>> => finder.out[1].query[1] # Amp
        /\ (/\ finder.catalog = <<Dom(<<>>)>>
            /\ finder.path = <<"catalog", "dom", "vannaya">>
            /\ finder.params = <<Param("sort", "newly")>>) =>
                /\ finder.out[1].name = "Vannaya"
                /\ finder.out[1].query = <<Param("sort", "newly")>>

\* C20: every admitted session ends and returns: the page number never
\* exceeds MAX_PAGES, a page takes at most ScrapeMaxRetries GETs and at most
\* EvirmaMaxRetries POSTs, and under fairness a call that is in its session
\* eventually has returned, whatever the services answer.
C20_SessionsTerminate ==
    /\ [](\A c \in Calls : /\ sess[c].page <= MAX_PAGES
                            /\ sess[c].gets <= ScrapeMaxRetries
                            /\ sess[c].posts <= EvirmaMaxRetries)
    /\ \A c \in Calls : InSession(c) ~> sess[c].pc = "done"

\* The session used the whole retry budget of a page's scrape in rate-limit
\* waits, after a page that gave rows, and has returned.
C20_Witness ==
    \E c \in Calls :
        /\ sess[c].pc = "returning" /\ sess[c].loopExit = "rateLimited"

\* The call hands a page's scrape to the queue: it was outside the queue and
\* is now waiting in it or running.
Submits(c) ==
    /\ sess[c].pc \notin {"queued", "get", "wait429", "pace"}
    /\ sess'[c].pc \in {"queued", "get"}

\* The rows of call c in a sequence of rows are in page order.
InPageOrder(rows, c) ==
    \A i, j \in DOMAIN rows :
        (i < j /\ rows[i][1] = c /\ rows[j][1] = c) => rows[i][2] <= rows[j][2]

\* C21: within one session the pages go up from 1 one at a time.  A scrape is
\* submitted to the queue only by the step that resolved the category (page 1,
\* nothing appended yet) or by the step that completed the enrichment of the
\* page before (page N+1 from the enrich position of page N, which is entered
\* only after the scrape of page N has settled); the page number changes in
\* no other way except being dropped when the loop is left; the rows a step
\* appends are rows of the page under enrichment; and the session's rows are
\* in page order, in its own record and in this.results.
C21_PagesInOrder ==
    [][\A c \in Calls :
          /\ Submits(c) =>
                \/ /\ sess[c].pc = "resolve"
                   /\ sess'[c].page = 1
                   /\ sess[c].own = <<>>
                \/ /\ sess[c].pc = "enrich"
                   /\ sess[c].page >= 1
                   /\ sess'[c].page = sess[c].page + 1
          /\ sess'[c].page # sess[c].page => (Submits(c) \/ sess'[c].page = 0)
          /\ (sess'[c].pc = "enrich" /\ sess[c].pc # "enrich") =>
                /\ sess[c].pc \in {"afterScrape", "ewait"}
                /\ sess'[c].page = sess[c].page
          /\ (sess'[c].pc = "afterScrape" /\ sess[c].pc # "afterScrape") =>
                /\ sess[c].pc = "pace"
                /\ sess'[c].page = sess[c].page
          /\ Len(sess'[c].own) > Len(sess[c].own) =>
                /\ sess[c].pc = "enrich"
                /\ SubSeq(sess'[c].own, 1, Len(sess[c].own)) = sess[c].own
                /\ \A i \in (Len(sess[c].own) + 1)..Len(sess'[c].own) :
                      sess'[c].own[i] = Row(c, sess[c].page)
          /\ InPageOrder(sess'[c].own, c)
          /\ InPageOrder(results', c)]_vars

\* A session went through both pages: its rows are the row of page 1 and
\* then the row of page 2, and the loop ended at the page limit.
C21_Witness ==
    \E c \in Calls :
        /\ sess[c].loopExit = "maxPages"
        /\ Len(sess[c].own) >= 2
        /\ sess[c].own[1] = Row(c, 1)
        /\ sess[c].own[Len(sess[c].own)] = Row(c, MAX_PAGES)

\* A call issues the catalog-tree GET: it enters fetchWbCatalog.
IssuesCatalogGet(c) ==
    /\ sess[c].pc # "fetchCatalog"
    /\ sess'[c].pc = "fetchCatalog"

\* C22: the category tree is fetched once: a call issues the catalog GET only
\* when no tree is cached and no GET of another call is outstanding (an
\* earlier one may have failed), so overlapping sessions of different users
\* issue one GET between them and no call issues one after a success.
C22_CatalogFetchedOnce ==
    [][\A c \in Calls :
          IssuesCatalogGet(c) =>
              /\ catalogData = "null"
              /\ \A d \in Calls \ {c} : sess[d].pc # "fetchCatalog"]_vars

\* handleText runs clearLogMessages(userId) for call c: parseCategory has
\* returned to it.
ClearsLog(c) ==
    /\ sess[c].pc = "returning"
    /\ sess'[c].pc = "done"

\* C23: a user's progress log is cleared only when that user's session has
\* ended: whenever handleText runs clearLogMessages for a call, rejected
\* duplicates included, the call's user is not in the active set.
C23_LogClearedAfterSession ==
    [][\A c \in Calls :
          ClearsLog(c) => sess[c].user \notin activeParsingUsers]_vars

\* The calls whose scrape task is at its GET or in a rate-limit wait, i.e.
\* running and not in the pacing sleep after a successful GET.
Working == {c \in Calls : sess[c].pc \in {"get", "wait429"}}

\* C24: the pacing sleep holds none of the queue's running slots: the slots
\* in use are those of the tasks that are not in a pacing sleep, so a
\* submitted task waits only while Concurrency such tasks are running.
C24_PacingHoldsNoSlot ==
    queue.waiting # <<>> => Cardinality(Working) >= Concurrency

====
